---- MODULE Spec2Model ----
(***************************************************************************)
(* Model of ALIChat.response_stream (src/phi/model/aliyun/aliyun.py), the  *)
(* generator that relays the chunks of a streamed chat completion and tags *)
(* the reasoning text with <think> ... </think>.                           *)
(*                                                                         *)
(* A stream is one invocation of response_stream.  The generator runs only *)
(* while its caller waits inside next(); it suspends at each yield.  The   *)
(* upstream iterator (invoke_stream) is opaque: on each pull it delivers a *)
(* chunk, stops, or raises.                                                *)
(*                                                                         *)
(* Python values: str is a TLA+ string, Optional[str] is a sequence of at  *)
(* most one string (None is <<>>), an object with optional attributes is a *)
(* function whose DOMAIN is the set of attributes it has.                  *)
(***************************************************************************)
EXTENDS Integers, Sequences, FiniteSets, TLC

VARIABLES
    pc,             \* stream -> the line the generator stands at
    running,        \* stream -> TRUE while the caller waits inside next()
    chunks,         \* stream -> the chunk objects pulled so far, as they are now
    sent,           \* stream -> the same chunks as the upstream delivered them
    status,         \* slot -> local variable status (line 46)
    stream_data,    \* slot -> local variable stream_data (line 45)
    out,            \* stream -> the events yielded to the caller so far
    raised,         \* stream -> what the upstream raised, <<>> if nothing
    surfaced        \* stream -> what the caller's next() raised, <<>> if nothing

vars == <<pc, running, chunks, sent, status, stream_data, out, raised, surfaced>>

----------------------------------------------------------------------------
(* Bounds *)

\* chunks one stream of Spec may deliver
MaxLen == 3
\* chunks one stream of SpecTwo may deliver
MaxLenTwo == 2

----------------------------------------------------------------------------
(* Python values *)

None == <<>>
Str(t) == <<t>>

\* the errors the upstream may raise
UpstreamErrors == {"APIConnectionError", "AuthenticationError"}

\* The generator never looks into a text beyond its being empty or not, so
\* the upstream gives every field of every chunk a text of its own: a text
\* that is dropped, repeated or moved shows in the events.
Letters == <<"a", "b", "c", "d", "e", "f", "g", "h", "i", "j", "k", "l">>
TextAt(k, name) ==
    Letters[((2 * k - (IF name = "reasoning_content" THEN 2 ELSE 1)) % Len(Letters)) + 1]

\* what an attribute of the delta of chunk k may hold: None, "" or its text
ValuesAt(k, name) == {None, Str(""), Str(TextAt(k, name))}

\* the deltas of chunk k: any of the two attributes may be missing
DeltasAt(k) ==
    UNION { {d \in [attrs -> ValuesAt(k, "reasoning_content") \cup ValuesAt(k, "content")] :
                \A n \in attrs : d[n] \in ValuesAt(k, n)}
            : attrs \in SUBSET {"reasoning_content", "content"} }

\* chunk k: no choice (the usage chunk) or one choice with its delta
ChunksAt(k) == {[choices |-> <<>>]} \cup {[choices |-> <<d>>] : d \in DeltasAt(k)}

\* hasattr(obj, name)
hasattr(obj, name) == name \in DOMAIN obj

\* as Truthy, but only None is false (a test "is not None")
TruthyNotNone(v) == v # None

\* truth value of an Optional[str]: None and "" are false
Truthy(v) == v # None /\ v[1] # ""

----------------------------------------------------------------------------
(* State of a fresh invocation *)

StreamData == [response_content |-> "", response_reasoning_content |-> None]

\* as Frame, but the variables are kept on the model object all streams share
FrameShared(s) == 1

\* the local variables of an invocation live in the invocation's own frame
Frame(s) == s

InitOver(streams) ==
    /\ pc = [s \in streams |-> "start"]
    /\ running = [s \in streams |-> FALSE]
    /\ chunks = [s \in streams |-> <<>>]
    /\ sent = [s \in streams |-> <<>>]
    /\ status = [s \in streams |-> ""]
    /\ stream_data = [s \in streams |-> StreamData]
    /\ out = [s \in streams |-> <<>>]
    /\ raised = [s \in streams |-> <<>>]
    /\ surfaced = [s \in streams |-> <<>>]

Init == InitOver({1})

----------------------------------------------------------------------------
(* The caller *)

\* next(generator): the generator resumes where it stands.  The caller is
\* single-threaded: next() returns before it calls next() again.
CallerNext(s) ==
    /\ \A t \in DOMAIN running : ~running[t]
    /\ pc[s] \notin {"done", "raised"}
    /\ running' = [running EXCEPT ![s] = TRUE]
    /\ pc' = [pc EXCEPT ![s] = IF pc[s] = "start" THEN "for" ELSE pc[s]]
    /\ UNCHANGED <<chunks, sent, status, stream_data, out, raised, surfaced>>

----------------------------------------------------------------------------
(* Line 48, for response in self.invoke_stream(...): one pull upstream *)

\* as Propagate, but the loop is wrapped in a try/except that ends the stream
PropagateSwallowed(e) == <<>>

\* what the caller's next() raises when the upstream raises e: there is no
\* try/except around the loop, so e itself
Propagate(e) == <<e>>

\* as Pulls, but the upstream is read ahead while the caller is away
PullsAhead(s) == pc[s] = "for"

\* the generator pulls from the upstream when it runs and stands at line 48
Pulls(s) == running[s] /\ pc[s] = "for"

\* the upstream delivers the chunk c
InvokeStreamYield(s, c, max) ==
    /\ Pulls(s)
    /\ Len(sent[s]) < max
    /\ chunks' = [chunks EXCEPT ![s] = Append(@, c)]
    /\ sent' = [sent EXCEPT ![s] = Append(@, c)]
    /\ pc' = [pc EXCEPT ![s] = "choices"]
    /\ UNCHANGED <<running, status, stream_data, out, raised, surfaced>>

\* the upstream is exhausted: the loop ends, the generator returns
InvokeStreamStop(s) ==
    /\ Pulls(s)
    /\ pc' = [pc EXCEPT ![s] = "done"]
    /\ running' = [running EXCEPT ![s] = FALSE]
    /\ UNCHANGED <<chunks, sent, status, stream_data, out, raised, surfaced>>

\* the upstream raises e
InvokeStreamRaise(s, e) ==
    /\ Pulls(s)
    /\ raised' = [raised EXCEPT ![s] = <<e>>]
    /\ surfaced' = [surfaced EXCEPT ![s] = Propagate(e)]
    /\ pc' = [pc EXCEPT ![s] = IF Propagate(e) = <<>> THEN "done" ELSE "raised"]
    /\ running' = [running EXCEPT ![s] = FALSE]
    /\ UNCHANGED <<chunks, sent, status, stream_data, out>>

----------------------------------------------------------------------------
(* Lines 49-54 *)

\* the chunk the generator holds: the last one pulled
Current(s) == chunks[s][Len(chunks[s])]

\* if not response.choices: ... continue (the usage is printed, nothing else)
CheckChoices(s) ==
    /\ running[s] /\ pc[s] = "choices"
    /\ pc' = [pc EXCEPT ![s] =
                IF Current(s).choices = <<>> THEN "for" ELSE "reasoning"]
    /\ UNCHANGED <<running, chunks, sent, status, stream_data, out, raised, surfaced>>

\* response.choices[0].delta
Delta(s) == Current(s).choices[1]

\* as SetDelta, but the text is kept in a local variable, the chunk untouched
SetDeltaLocal(seq, name, v) == seq

\* the chunk with the attribute name of its delta set to v
SetDelta(seq, name, v) ==
    [seq EXCEPT ![Len(seq)] =
        [choices |-> <<[n \in DOMAIN @.choices[1] \cup {name} |->
                            IF n = name THEN v ELSE @.choices[1][n]]>>]]

----------------------------------------------------------------------------
(* Lines 58-65, the reasoning text *)

\* getattr(obj, name): the attribute, or AttributeError when obj has none
AttributeError == <<"AttributeError">>
getattr(obj, name) == IF hasattr(obj, name) THEN <<"value", obj[name]>> ELSE AttributeError

\* hasattr(response_delta, name) and response_delta.<name>, lines 58 and 68:
\* "take" the branch, "skip" it, or the error the test itself raises
Test(delta, name) ==
    LET got == getattr(delta, name)
    IN IF got = AttributeError THEN "AttributeError"
       ELSE IF Truthy(got[2]) THEN "take" ELSE "skip"

\* as Guard, but the attribute is read without hasattr
GuardWithoutHasattr(delta, name) == Test(delta, name)

Guard(delta, name) == IF ~hasattr(delta, name) THEN "skip" ELSE Test(delta, name)

\* an error of the generator's own ends it and reaches the caller
Fails(s, e) ==
    /\ surfaced' = [surfaced EXCEPT ![s] = e]
    /\ pc' = [pc EXCEPT ![s] = "raised"]
    /\ running' = [running EXCEPT ![s] = FALSE]
    /\ UNCHANGED <<chunks, sent, status, stream_data, out, raised>>

\* as OpensThink, but tests status != "think"
OpensThinkUnlessThink(st) == st # "think"

\* as OpensThink, but tests status != "answer"
OpensThinkUnlessAnswer(st) == st # "answer"

\* lines 59-61
OpensThink(st) == st = ""

\* as ReasoningStatus, but line 60 is missing
ReasoningStatusUnset(st) == st

ReasoningStatus(st) == IF OpensThink(st) THEN "think" ELSE st

\* as ReasoningText, but the marker replaces the text
ReasoningTextMarkerOnly(st, text) == IF OpensThink(st) THEN "<think>" ELSE text

ReasoningText(st, text) == IF OpensThink(st) THEN "<think>" \o text ELSE text

\* line 62
StoreReasoning(sd, text) == [sd EXCEPT !.response_reasoning_content = Str(text)]

\* ModelResponse(content=text)
ModelResponse(text) == [content |-> text]

ProcessReasoning(s) ==
    /\ running[s] /\ pc[s] = "reasoning"
    /\ LET test == Guard(Delta(s), "reasoning_content")
       IN IF test = "AttributeError" THEN Fails(s, AttributeError)
          ELSE /\ IF test = "take"
                  THEN LET text == ReasoningText(status[Frame(s)],
                                                 Delta(s).reasoning_content[1])
                       IN /\ status' = [status EXCEPT ![Frame(s)] = ReasoningStatus(@)]
                          /\ chunks' = [chunks EXCEPT ![s] =
                                          IF OpensThink(status[Frame(s)])
                                          THEN SetDelta(@, "reasoning_content", Str(text))
                                          ELSE @]
                          /\ stream_data' = [stream_data EXCEPT ![Frame(s)] =
                                               StoreReasoning(@, text)]
                          /\ out' = [out EXCEPT ![s] = Append(@, ModelResponse(text))]
                          /\ running' = [running EXCEPT ![s] = FALSE]
                  ELSE UNCHANGED <<status, chunks, stream_data, out, running>>
               /\ pc' = [pc EXCEPT ![s] = "answer"]
               /\ UNCHANGED <<sent, raised, surfaced>>

----------------------------------------------------------------------------
(* Lines 68-73, the answer text *)

\* as ClosesThink, but tests status != "answer"
ClosesThinkUnlessAnswer(st) == st # "answer"

\* lines 69-71
ClosesThink(st) == st = "think"

\* as AnswerStatus, but every answer text sets status to "answer"
AnswerStatusAlways(st) == "answer"

\* as AnswerText, but tests status != ""
AnswerTextAfterReasoning(st, text) == IF st # "" THEN "</think>" \o text ELSE text

AnswerStatus(st) == IF ClosesThink(st) THEN "answer" ELSE st
AnswerText(st, text) == IF ClosesThink(st) THEN "</think>" \o text ELSE text

\* as StoreAnswer, but with = for +=
StoreAnswerAssigned(sd, text) == [sd EXCEPT !.response_content = text]

\* line 72
StoreAnswer(sd, text) == [sd EXCEPT !.response_content = @ \o text]

ProcessAnswer(s) ==
    /\ running[s] /\ pc[s] = "answer"
    /\ LET test == Guard(Delta(s), "content")
       IN IF test = "AttributeError" THEN Fails(s, AttributeError)
          ELSE /\ IF test = "take"
                  THEN LET text == AnswerText(status[Frame(s)], Delta(s).content[1])
                       IN /\ status' = [status EXCEPT ![Frame(s)] = AnswerStatus(@)]
                          /\ chunks' = [chunks EXCEPT ![s] =
                                          IF ClosesThink(status[Frame(s)])
                                          THEN SetDelta(@, "content", Str(text))
                                          ELSE @]
                          /\ stream_data' = [stream_data EXCEPT ![Frame(s)] =
                                               StoreAnswer(@, text)]
                          /\ out' = [out EXCEPT ![s] = Append(@, ModelResponse(text))]
                          /\ running' = [running EXCEPT ![s] = FALSE]
                  ELSE UNCHANGED <<status, chunks, stream_data, out, running>>
               /\ pc' = [pc EXCEPT ![s] = "for"]
               /\ UNCHANGED <<sent, raised, surfaced>>

----------------------------------------------------------------------------
(* One stream *)

Next ==
    \/ CallerNext(1)
    \/ \E c \in ChunksAt(Len(sent[1]) + 1) : InvokeStreamYield(1, c, MaxLen)
    \/ InvokeStreamStop(1)
    \/ \E e \in UpstreamErrors : InvokeStreamRaise(1, e)
    \/ CheckChoices(1)
    \/ ProcessReasoning(1)
    \/ ProcessAnswer(1)

Spec == Init /\ [][Next]_vars

\* The caller keeps calling next(), the generator's code runs on when it is
\* resumed, and the upstream answers every pull (with a chunk, the end of
\* the stream or an error): some step is taken as long as one can be.
SpecLive == Init /\ [][Next]_vars /\ WF_vars(Next)

----------------------------------------------------------------------------
(* Two streams, two invocations of response_stream, pulled in any order *)

\* the chunks of the two streams: the usage chunk and the deltas with both
\* attributes, each None or its text
ChunksTwoAt(k) ==
    {[choices |-> <<>>]}
    \cup {[choices |-> <<d>>] :
            d \in {e \in DeltasAt(k) :
                     /\ DOMAIN e = {"reasoning_content", "content"}
                     /\ \A n \in DOMAIN e : e[n] # Str("")}}

InitTwo == InitOver({1, 2})

NextTwo ==
    \E s \in {1, 2} :
        \/ CallerNext(s)
        \/ \E c \in ChunksTwoAt(Len(sent[s]) + 1) : InvokeStreamYield(s, c, MaxLenTwo)
        \/ InvokeStreamStop(s)
        \/ \E e \in UpstreamErrors : InvokeStreamRaise(s, e)
        \/ CheckChoices(s)
        \/ ProcessReasoning(s)
        \/ ProcessAnswer(s)

SpecTwo == InitTwo /\ [][NextTwo]_vars

----------------------------------------------------------------------------
(* response_stream run alone: the loop of lines 48-73 over the chunks fs *)

RECURSIVE Run(_, _)
Run(st, fs) ==
    IF fs = <<>> THEN <<>>
    ELSE LET response == Head(fs)
         IN IF response.choices = <<>> THEN Run(st, Tail(fs))
            ELSE LET delta == response.choices[1]
                     reasons == Guard(delta, "reasoning_content") = "take"
                     answers == Guard(delta, "content") = "take"
                     st1 == IF reasons THEN ReasoningStatus(st) ELSE st
                     st2 == IF answers THEN AnswerStatus(st1) ELSE st1
                 IN (IF reasons
                     THEN <<ModelResponse(ReasoningText(st, delta.reasoning_content[1]))>>
                     ELSE <<>>)
                    \o (IF answers
                        THEN <<ModelResponse(AnswerText(st1, delta.content[1]))>>
                        ELSE <<>>)
                    \o Run(st2, Tail(fs))

\* status = "" at line 46, then the loop
RunAlone(fs) == Run("", fs)

----------------------------------------------------------------------------
TypeOK ==
    \A s \in DOMAIN pc :
        /\ pc[s] \in {"start", "for", "choices", "reasoning", "answer", "done", "raised"}
        /\ status[s] \in {"", "think", "answer"}

----------------------------------------------------------------------------
(* What the upstream delivered, read off the delivered chunks alone *)

\* the text a delivered chunk carries in a field, "" when it carries none
TextOf(c, name) ==
    IF c.choices = <<>> THEN ""
    ELSE LET d == c.choices[1]
         IN IF name \notin DOMAIN d \/ d[name] = None THEN "" ELSE d[name][1]

Carries(c, name) == TextOf(c, name) # ""

\* the non-empty fields of chunk number k, reasoning before answer
FieldsOf(c, k) ==
    (IF Carries(c, "reasoning_content")
     THEN <<[chunk |-> k, field |-> "reasoning_content",
             text |-> TextOf(c, "reasoning_content")]>>
     ELSE <<>>)
    \o (IF Carries(c, "content")
        THEN <<[chunk |-> k, field |-> "content", text |-> TextOf(c, "content")]>>
        ELSE <<>>)

\* the non-empty fields of the chunks fs, in arrival order
RECURSIVE Arrived(_)
Arrived(fs) ==
    IF fs = <<>> THEN <<>>
    ELSE Arrived(SubSeq(fs, 1, Len(fs) - 1)) \o FieldsOf(fs[Len(fs)], Len(fs))

\* the fields stream s has gone past: of the chunk it holds, those behind pc
Passed(s) ==
    LET n == Len(sent[s])
        before == Arrived(SubSeq(sent[s], 1, n - 1))
    IN  IF pc[s] \in {"choices", "reasoning"} THEN before
        ELSE IF pc[s] = "answer"
             THEN before \o SelectSeq(FieldsOf(sent[s][n], n),
                                      LAMBDA f : f.field = "reasoning_content")
             ELSE Arrived(sent[s])

\* the events of stream s that are the text of their field with marker put
\* before it
MarkedWith(s, marker) ==
    LET passed == Passed(s)
    IN {i \in 1..Len(out[s]) :
          i <= Len(passed) /\ out[s][i].content = marker \o passed[i].text}

Opens(s) == MarkedWith(s, "<think>")
Closes(s) == MarkedWith(s, "</think>")

\* the chunk numbers that carry text in a field
Carriers(fs, name) == {k \in 1..Len(fs) : Carries(fs[k], name)}

Min(S) == CHOOSE k \in S : \A j \in S : k <= j

Contents(s) == [i \in 1..Len(out[s]) |-> out[s][i].content]

----------------------------------------------------------------------------
(* Claims *)

\* some chunk carries reasoning text and that chunk or a later one answer text
ReasoningThenAnswer(fs) ==
    \E i \in Carriers(fs, "reasoning_content") :
        \E j \in Carriers(fs, "content") : i <= j

\* C1: a stream run to exhaustion whose chunks carry reasoning text and, in the
\* same or a later chunk, answer text has exactly one event with <think> put
\* before its text and exactly one with </think>, the former emitted first.
C1_OneOpenThenOneClose ==
    (pc[1] = "done" /\ ReasoningThenAnswer(sent[1]))
        => /\ Cardinality(Opens(1)) = 1
           /\ Cardinality(Closes(1)) = 1
           /\ \A i \in Opens(1) : \A j \in Closes(1) : i < j

\* Scenario 1 of the specification, with the texts of the model
C1_Witness ==
    /\ pc[1] = "done"
    /\ Len(sent[1]) = 3
    /\ Contents(1) = <<"<think>a", "c", "</think>f">>

\* C2: as long as no delivered chunk carries reasoning text, every event is
\* the answer text of its chunk, unchanged: no marker is inserted.
C2_AnswerOnlyUnmarked ==
    Carriers(sent[1], "reasoning_content") = {}
        => LET passed == Passed(1)
           IN /\ Len(out[1]) = Len(passed)
              /\ \A i \in 1..Len(out[1]) :
                   /\ passed[i].field = "content"
                   /\ out[1][i].content = passed[i].text

C2_Witness ==
    /\ pc[1] = "done"
    /\ Carriers(sent[1], "reasoning_content") = {}
    /\ Contents(1) = <<"b", "d">>

\* C3: a stream run to exhaustion has inserted <think> once and </think> once,
\* or neither of them.
C3_BothOrNeither ==
    pc[1] = "done"
        => \/ Cardinality(Opens(1)) = 1 /\ Cardinality(Closes(1)) = 1
           \/ Opens(1) = {} /\ Closes(1) = {}

\* the last delivered chunk carries text in neither field
HoldsEmpty(fs) ==
    /\ fs # <<>>
    /\ ~Carries(fs[Len(fs)], "reasoning_content")
    /\ ~Carries(fs[Len(fs)], "content")

\* C4: no step taken while the last delivered chunk carries no text (its
\* delivery, its processing, the end of the stream after it) emits an event
\* or changes status or the accumulators.
C4_EmptyChunkNoEffect ==
    [][HoldsEmpty(sent'[1]) => UNCHANGED <<out, status, stream_data>>]_vars

\* Scenario 3: empty reasoning text, then an answer: one event, no marker
C4_Witness ==
    /\ pc[1] = "done"
    /\ Len(sent[1]) = 2
    /\ sent[1][1] = [choices |-> <<[reasoning_content |-> Str("")]>>]
    /\ Contents(1) = <<"d">>

\* C5: the event of a reasoning text is that text with <think> before it if
\* the text is in the first chunk that carries reasoning text, whatever came
\* before that chunk, and is the text unchanged otherwise.
C5_OpenOnFirstReasoning ==
    LET passed == Passed(1)
    IN \A i \in 1..Len(out[1]) :
        (i <= Len(passed) /\ passed[i].field = "reasoning_content")
            => out[1][i].content =
                 IF passed[i].chunk = Min(Carriers(sent[1], "reasoning_content"))
                 THEN "<think>" \o passed[i].text
                 ELSE passed[i].text

\* answers first, then the first reasoning text, then more reasoning
C5_Witness ==
    /\ Contents(1) = <<"b", "<think>c", "e">>
    /\ Min(Carriers(sent[1], "reasoning_content")) = 2
    /\ Len(sent[1]) = 3

\* the chunk whose answer text is the first to come after a reasoning text
\* (the reasoning text of the same chunk comes before its answer text)
ClosingChunks(fs) ==
    {k \in Carriers(fs, "content") :
        \E r \in Carriers(fs, "reasoning_content") : r <= k}

\* C6: </think> is inserted at most once: the event of an answer text is that
\* text with </think> before it if it is the first answer text to come after a
\* reasoning text, and is the text unchanged otherwise.
C6_CloseOnFirstAnswerAfterReasoning ==
    LET passed == Passed(1)
        closing == ClosingChunks(sent[1])
    IN /\ Cardinality(Closes(1)) <= 1
       /\ \A i \in 1..Len(out[1]) :
           (i <= Len(passed) /\ passed[i].field = "content")
               => out[1][i].content =
                    IF closing # {} /\ passed[i].chunk = Min(closing)
                    THEN "</think>" \o passed[i].text
                    ELSE passed[i].text

\* an answer before any reasoning, then reasoning and two answers after it
C6_Witness ==
    /\ Len(sent[1]) = 3
    /\ Contents(1) = <<"b", "<think>c", "</think>d", "f">>

\* C7: the events are the non-empty texts of the fields gone past, one event
\* a field, in arrival order, each text relayed whole with at most a marker
\* put before it.
C7_PureRelay ==
    LET passed == Passed(1)
    IN /\ Len(out[1]) = Len(passed)
       /\ \A i \in 1..Len(out[1]) :
             \E marker \in {"", "<think>", "</think>"} :
                 out[1][i].content = marker \o passed[i].text

\* a chunk with both fields and chunks with one: four texts, four events
C7_Witness ==
    /\ pc[1] = "done"
    /\ Len(Passed(1)) = 4
    /\ Contents(1) = <<"<think>a", "</think>b", "d", "e">>

\* C8: when the upstream raises, next() raises that same error; the events
\* emitted until then are those of the chunks delivered, and from then on no
\* event is emitted, no chunk is pulled and the error stays.
C8_UpstreamFailureSurfaces ==
    /\ [](raised[1] # <<>> =>
            /\ pc[1] = "raised"
            /\ surfaced[1] = raised[1]
            /\ Len(out[1]) = Len(Arrived(sent[1])))
    /\ [][raised'[1] # <<>> => out' = out /\ sent' = sent]_vars
    /\ [][raised[1] # <<>> => UNCHANGED vars]_vars

\* the upstream raised after two chunks and three events
C8_Witness ==
    /\ raised[1] = <<"APIConnectionError">>
    /\ Len(sent[1]) = 2
    /\ Len(out[1]) = 3

\* C9: the generator raises no error of its own, whatever the chunk's shape
\* and whatever the status: an error the caller sees is the upstream's.
C9_NeverRejects ==
    /\ surfaced[1] # AttributeError
    /\ surfaced[1] = raised[1]

\* a delta without either attribute, processed while status is "think"
C9_Witness ==
    /\ Len(sent[1]) = 2
    /\ sent[1][2] = [choices |-> << <<>> >>]
    /\ status[1] = "think"
    /\ pc[1] = "for"

IsPrefix(p, q) == Len(p) <= Len(q) /\ p = SubSeq(q, 1, Len(p))

\* the generator stands between two chunks, or has ended
Between(s) == pc[s] \in {"start", "for", "done", "raised"}

\* C10: with the pulls of two streams interleaved in any order, the events of
\* each stream are at every moment the first events it yields when it is run
\* alone on its chunks, and all of them once its last chunk is processed.
C10_StreamsIndependent ==
    \A s \in {1, 2} :
        /\ IsPrefix(out[s], RunAlone(sent[s]))
        /\ Between(s) => out[s] = RunAlone(sent[s])

\* both streams are suspended in mid-chunk, each after its first reasoning
\* text, stream 1 in its second chunk: the pulls were interleaved
C10_Witness ==
    /\ pc[1] = "answer" /\ pc[2] = "answer"
    /\ Len(sent[1]) = 2 /\ Len(sent[2]) = 1
    /\ Contents(1) = <<"b", "<think>c">>
    /\ Contents(2) = <<"<think>a">>

\* C11: a chunk is pulled only while the caller waits inside next(), one chunk
\* a pull, and only once every event of the chunks pulled before has been
\* handed to the caller; the pull itself hands over nothing.
C11_LazyPull ==
    [][sent'[1] # sent[1] =>
          /\ running[1]
          /\ Len(sent'[1]) = Len(sent[1]) + 1
          /\ SubSeq(sent'[1], 1, Len(sent[1])) = sent[1]
          /\ Len(out[1]) = Len(Arrived(sent[1]))
          /\ out'[1] = out[1]]_vars

\* the second chunk has just been pulled, the two events of the first handed over
C11_Witness ==
    /\ pc[1] = "choices"
    /\ Len(sent[1]) = 2
    /\ Contents(1) = <<"<think>a", "</think>b">>

\* NOT_STARTED < REASONING < ANSWERING
Rank(st) == CASE st = "" -> 0 [] st = "think" -> 1 [] st = "answer" -> 2

\* the field whose event a step has just emitted
Emitted(s) == Passed(s)[Len(out[s])]

\* C12: no step lowers the phase; a reasoning text that comes while the phase
\* is ANSWERING is emitted unchanged and leaves the phase ANSWERING, and so
\* does every answer text after it: no marker is inserted again.
C12_PhaseMonotonic ==
    /\ [][Rank(status'[1]) >= Rank(status[1])]_vars
    /\ [][(status[1] = "answer" /\ Len(out'[1]) > Len(out[1])) =>
             /\ status'[1] = "answer"
             /\ out'[1][Len(out'[1])].content = Emitted(1)'.text]_vars

\* reasoning text after the answer has begun, relayed unchanged
C12_Witness ==
    /\ status[1] = "answer"
    /\ Contents(1) = <<"<think>a", "</think>b", "c", "d">>

\* the events of answer texts emitted so far
AnswerEvents(s) ==
    LET passed == Passed(s)
    IN {i \in 1..Len(out[s]) : i <= Len(passed) /\ passed[i].field = "content"}

\* the events of reasoning texts emitted so far
ReasoningEvents(s) ==
    LET passed == Passed(s)
    IN {i \in 1..Len(out[s]) : i <= Len(passed) /\ passed[i].field = "reasoning_content"}

\* C13, as claimed: once an answer event has been emitted the phase is
\* ANSWERING (an answer text met at NOT_STARTED moves the phase there).
C13_AnswerMovesToAnswering ==
    AnswerEvents(1) # {} => status[1] = "answer"

\* C13, amended: an answer text met while the phase is NOT_STARTED is emitted
\* unchanged and leaves the phase NOT_STARTED; the phase is ANSWERING exactly
\* when an answer event has been emitted after a reasoning event.
C13_AnswerAtNotStartedKeepsPhase ==
    /\ [](status[1] = "answer" <=>
            \E i \in ReasoningEvents(1) : \E j \in AnswerEvents(1) : i < j)
    /\ [][(status[1] = "" /\ Len(out'[1]) > Len(out[1])
                          /\ Emitted(1)'.field = "content") =>
             /\ status'[1] = ""
             /\ out'[1][Len(out'[1])].content = Emitted(1)'.text]_vars

\* an answer text was emitted first, unchanged, and the phase is NOT_STARTED
C13_Witness ==
    /\ status[1] = ""
    /\ pc[1] = "for"
    /\ Contents(1) = <<"b">>

\* the chunk the generator holds, as delivered
Held(s) == sent[s][Len(sent[s])]

\* the generator holds a chunk that carries both texts
HoldsBoth(s) ==
    /\ sent[s] # <<>>
    /\ Carries(Held(s), "reasoning_content")
    /\ Carries(Held(s), "content")

\* C14: a chunk with reasoning text r and answer text a, met at NOT_STARTED or
\* REASONING, gives two events: first r, with <think> before it if the phase
\* was NOT_STARTED, and the phase REASONING; then, nothing changing while the
\* generator is suspended between the two, </think> and a, and the phase
\* ANSWERING.
C14_BothTextsTwoEvents ==
    /\ [][(pc[1] = "reasoning" /\ pc'[1] = "answer" /\ HoldsBoth(1)
                               /\ status[1] \in {"", "think"}) =>
             /\ out'[1] = Append(out[1],
                    [content |-> (IF status[1] = "" THEN "<think>" ELSE "")
                                    \o TextOf(Held(1), "reasoning_content")])
             /\ status'[1] = "think"]_vars
    /\ [][(pc[1] = "answer" /\ pc'[1] = "answer") =>
             status'[1] = status[1] /\ out'[1] = out[1]]_vars
    /\ [][(pc[1] = "answer" /\ pc'[1] = "for" /\ HoldsBoth(1)
                            /\ status[1] = "think") =>
             /\ out'[1] = Append(out[1],
                    [content |-> "</think>" \o TextOf(Held(1), "content")])
             /\ status'[1] = "answer"]_vars

\* the first chunk carried both texts
C14_Witness ==
    /\ Len(sent[1]) = 1
    /\ pc[1] = "for"
    /\ status[1] = "answer"
    /\ Contents(1) = <<"<think>a", "</think>b">>

\* the texts of the first n events that belong to the fields of one name,
\* joined in the order of emission
RECURSIVE Joined(_, _, _, _)
Joined(events, passed, name, n) ==
    IF n = 0 THEN ""
    ELSE Joined(events, passed, name, n - 1)
         \o (IF n <= Len(passed) /\ passed[n].field = name
             THEN events[n].content ELSE "")

JoinedEvents(s, name) == Joined(out[s], Passed(s), name, Len(out[s]))

\* C15: the reasoning accumulator is the texts of all reasoning events emitted
\* so far, joined (None standing for no text yet).
C15_ReasoningAccumulated ==
    LET joined == JoinedEvents(1, "reasoning_content")
        held == stream_data[1].response_reasoning_content
    IN IF joined = "" THEN held = None ELSE held = Str(joined)

\* C16: the answer accumulator is the texts of all answer events emitted so
\* far, joined, </think> included; it is "" before the first answer event.
C16_AnswerAccumulated ==
    stream_data[1].response_content = JoinedEvents(1, "content")

\* three answer events, the second with </think>
C16_Witness ==
    /\ Len(out[1]) = 4
    /\ stream_data[1].response_content = "b</think>df"

\* C17: unless the upstream raises, the generator ends; when it has ended the
\* chunks it pulled are the chunks delivered, one for one and in their order,
\* every non-empty field of theirs has its event, and there are at most two
\* events a chunk.
C17_Terminates ==
    /\ <>(pc[1] = "done" \/ raised[1] # <<>>)
    /\ [](pc[1] = "done" =>
            /\ Len(chunks[1]) = Len(sent[1])
            /\ \A k \in 1..Len(sent[1]) :
                 (chunks[1][k].choices = <<>>) = (sent[1][k].choices = <<>>)
            /\ Len(out[1]) = Len(Arrived(sent[1]))
            /\ Len(out[1]) <= 2 * Len(sent[1]))

\* the stream ended after three chunks, two events each
C17_Witness ==
    /\ pc[1] = "done"
    /\ Len(sent[1]) = 3
    /\ Len(out[1]) = 6

\* C18: at every moment at most one <think> has been inserted, and at most as
\* many </think> as <think>: no </think> without a <think> before it.
C18_ClosesWithinOpens ==
    /\ Cardinality(Closes(1)) <= Cardinality(Opens(1))
    /\ Cardinality(Opens(1)) <= 1
    /\ \A j \in Closes(1) : \E i \in Opens(1) : i < j

\* in mid-stream, both markers inserted and texts relayed after them
C18_Witness ==
    /\ pc[1] = "choices"
    /\ Cardinality(Opens(1)) = 1
    /\ Cardinality(Closes(1)) = 1
    /\ Len(out[1]) = 4

\* the fields of the chunks pulled that differ from what was delivered
Modified(s) ==
    {f \in (1..Len(chunks[s])) \X {"reasoning_content", "content"} :
        /\ sent[s][f[1]].choices # <<>>
        /\ f[2] \in DOMAIN sent[s][f[1]].choices[1]
        /\ chunks[s][f[1]].choices[1][f[2]] # sent[s][f[1]].choices[1][f[2]]}

\* the fields whose event carries marker, from the events
MarkedFields(s, marker) ==
    LET passed == Passed(s)
    IN {<<passed[i].chunk, passed[i].field>> : i \in MarkedWith(s, marker)}

\* C19: a chunk pulled keeps its shape (its choices, the attributes of its
\* delta); the fields that differ from what the upstream delivered are those
\* whose event got a marker, at most two, and each of them holds the text of
\* its event, marker included.
C19_WritesOnlyMarkedFields ==
    LET passed == Passed(1)
    IN /\ Len(chunks[1]) = Len(sent[1])
       /\ \A k \in 1..Len(sent[1]) :
            IF sent[1][k].choices = <<>> THEN chunks[1][k] = sent[1][k]
            ELSE /\ DOMAIN chunks[1][k] = {"choices"}
                 /\ Len(chunks[1][k].choices) = 1
                 /\ DOMAIN chunks[1][k].choices[1] = DOMAIN sent[1][k].choices[1]
       /\ Modified(1) = MarkedFields(1, "<think>") \cup MarkedFields(1, "</think>")
       /\ Cardinality(Modified(1)) <= 2
       /\ \A i \in Opens(1) \cup Closes(1) :
            chunks[1][passed[i].chunk].choices[1][passed[i].field]
                = Str(out[1][i].content)

\* two fields were overwritten, in the second and the third chunk
C19_Witness ==
    /\ Modified(1) = {<<2, "reasoning_content">>, <<3, "content">>}
    /\ Contents(1) = <<"b", "<think>c", "</think>f">>
    /\ chunks[1][3].choices[1].content = Str("</think>f")

====
